---- MODULE Spec2Model ----
(***************************************************************************)
(* A model of export_granola.py: the incremental export of meeting         *)
(* transcripts from the Granola cache into per-meeting files and an Index, *)
(* followed by the optional sync step.                                     *)
(*                                                                         *)
(* Strings are sequences of one-character strings, so that slicing,        *)
(* comparison and substring search are computed as Python computes them.   *)
(***************************************************************************)
EXTENDS Integers, Sequences, FiniteSets, TLC

(***************************************************************************)
(* Characters and strings                                                  *)
(***************************************************************************)
LowerCase ==
  <<"a","b","c","d","e","f","g","h","i","j","k","l","m",
    "n","o","p","q","r","s","t","u","v","w","x","y","z">>

UpperCase ==
  <<"A","B","C","D","E","F","G","H","I","J","K","L","M",
    "N","O","P","Q","R","S","T","U","V","W","X","Y","Z">>

Digits == <<"0","1","2","3","4","5","6","7","8","9">>

\* The characters the model uses, in ASCII order.
Ascii ==
  <<" ","!","&","+","-",".","/">> \o Digits \o <<":">> \o UpperCase
    \o <<"_">> \o LowerCase

Range(s) == { s[i] : i \in 1..Len(s) }

Ord(c) == CHOOSE i \in 1..Len(Ascii) : Ascii[i] = c

IsDigit(c) == c \in Range(Digits)

DigitVal(c) == (CHOOSE i \in 1..10 : Digits[i] = c) - 1

Min(a, b) == IF a < b THEN a ELSE b

\* s[:n]
Prefix(s, n) == SubSeq(s, 1, Min(n, Len(s)))

\* Python's a < b on str: lexicographic by code point.
RECURSIVE StrLess(_, _)
StrLess(a, b) ==
  IF b = <<>> THEN FALSE
  ELSE IF a = <<>> THEN TRUE
  ELSE IF Ord(a[1]) < Ord(b[1]) THEN TRUE
  ELSE IF Ord(a[1]) > Ord(b[1]) THEN FALSE
  ELSE StrLess(Tail(a), Tail(b))

\* Python's `sub in s`.
Contains(s, sub) ==
  \E i \in 0..(Len(s) - Len(sub)) : SubSeq(s, i + 1, i + Len(sub)) = sub

EndsWith(s, suf) ==
  Len(s) >= Len(suf) /\ SubSeq(s, Len(s) - Len(suf) + 1, Len(s)) = suf

(***************************************************************************)
(* slugify (lines 28-33)                                                   *)
(***************************************************************************)
SlugMaxLength == 50

lower(c) ==
  IF c \in Range(UpperCase)
  THEN LowerCase[CHOOSE i \in 1..26 : UpperCase[i] = c]
  ELSE c

\* \w of the regular expression, on the model's characters.
IsWord(c) == c \in Range(LowerCase) \cup Range(UpperCase) \cup Range(Digits) \cup {"_"}

\* \s of the regular expression, on the model's characters.
IsSpace(c) == c = " "

\* re.sub(r'[^\w\s-]', '', text)
RECURSIVE StripPunct(_)
StripPunct(s) ==
  IF s = <<>> THEN <<>>
  ELSE IF IsWord(s[1]) \/ IsSpace(s[1]) \/ s[1] = "-"
       THEN <<s[1]>> \o StripPunct(Tail(s))
       ELSE StripPunct(Tail(s))

\* re.sub(r'[-\s]+', '-', text): every maximal run of hyphens and spaces
\* becomes one hyphen.
RECURSIVE CollapseRuns(_, _)
CollapseRuns(s, inRun) ==
  IF s = <<>> THEN <<>>
  ELSE IF IsSpace(s[1]) \/ s[1] = "-"
       THEN (IF inRun THEN <<>> ELSE <<"-">>) \o CollapseRuns(Tail(s), TRUE)
       ELSE <<s[1]>> \o CollapseRuns(Tail(s), FALSE)

\* .strip('-')
RECURSIVE LStripHyphen(_)
LStripHyphen(s) ==
  IF s # <<>> /\ s[1] = "-" THEN LStripHyphen(Tail(s)) ELSE s

RECURSIVE RStripHyphen(_)
RStripHyphen(s) ==
  IF s # <<>> /\ s[Len(s)] = "-" THEN RStripHyphen(SubSeq(s, 1, Len(s) - 1)) ELSE s

slugify(text) ==
  LET lowered   == [i \in 1..Len(text) |-> lower(text[i])]
      stripped  == StripPunct(lowered)
      collapsed == RStripHyphen(LStripHyphen(CollapseRuns(stripped, FALSE)))
  IN  Prefix(collapsed, SlugMaxLength)

(***************************************************************************)
(* The date part of the filename (lines 344-349)                           *)
(***************************************************************************)
\* created_at.replace('Z', '+00:00')
RECURSIVE ReplaceZ(_)
ReplaceZ(s) ==
  IF s = <<>> THEN <<>>
  ELSE IF s[1] = "Z" THEN <<"+","0","0",":","0","0">> \o ReplaceZ(Tail(s))
       ELSE <<s[1]>> \o ReplaceZ(Tail(s))

TwoDigits(s, i) == IsDigit(s[i]) /\ IsDigit(s[i + 1])

Num2(s, i) == 10 * DigitVal(s[i]) + DigitVal(s[i + 1])

Num4(s) == 100 * Num2(s, 1) + Num2(s, 3)

IsLeap(y) == (y % 4 = 0 /\ y % 100 # 0) \/ y % 400 = 0

DaysInMonth(y, m) ==
  IF m = 2 THEN (IF IsLeap(y) THEN 29 ELSE 28)
  ELSE IF m \in {4, 6, 9, 11} THEN 30 ELSE 31

\* YYYY-MM-DD
IsIsoDate(s) ==
  /\ Len(s) = 10
  /\ TwoDigits(s, 1) /\ TwoDigits(s, 3) /\ s[5] = "-"
  /\ TwoDigits(s, 6) /\ s[8] = "-" /\ TwoDigits(s, 9)
  /\ Num4(s) >= 1
  /\ Num2(s, 6) \in 1..12
  /\ Num2(s, 9) \in 1..DaysInMonth(Num4(s), Num2(s, 6))

\* HH[:MM[:SS]]
IsIsoClock(s) ==
  /\ Len(s) \in {2, 5, 8}
  /\ TwoDigits(s, 1) /\ Num2(s, 1) \in 0..23
  /\ Len(s) >= 5 => (s[3] = ":" /\ TwoDigits(s, 4) /\ Num2(s, 4) \in 0..59)
  /\ Len(s) >= 8 => (s[6] = ":" /\ TwoDigits(s, 7) /\ Num2(s, 7) \in 0..59)

\* +HH:MM or -HH:MM
IsIsoOffset(s) ==
  /\ Len(s) = 6
  /\ s[1] \in {"+", "-"}
  /\ TwoDigits(s, 2) /\ Num2(s, 2) \in 0..23
  /\ s[4] = ":"
  /\ TwoDigits(s, 5) /\ Num2(s, 5) \in 0..59

\* HH[:MM[:SS]][+HH:MM]
IsIsoTime(s) ==
  \/ IsIsoClock(s)
  \/ \E k \in 2..(Len(s) - 6) :
       IsIsoClock(SubSeq(s, 1, k)) /\ IsIsoOffset(SubSeq(s, k + 1, Len(s)))

\* datetime.fromisoformat accepts YYYY-MM-DD[*HH[:MM[:SS]][+HH:MM]]
\* (fractions of a second are not among the model's inputs).
IsIsoFormat(s) ==
  /\ Len(s) >= 10
  /\ IsIsoDate(SubSeq(s, 1, 10))
  /\ Len(s) > 10 => (Len(s) >= 13 /\ IsIsoTime(SubSeq(s, 12, Len(s))))

UnknownDate == <<"u","n","k","n","o","w","n","-","d","a","t","e">>

\* date_obj.strftime("%Y-%m-%d"), or "unknown-date" when parsing raises
date_str(created_at) ==
  LET s == ReplaceZ(created_at)
  IN  IF IsIsoFormat(s) THEN SubSeq(s, 1, 10) ELSE UnknownDate

(***************************************************************************)
(* The filename of a meeting (lines 351-353)                               *)
(***************************************************************************)
IdPrefixLen == 8

\* f"{date_str}_{slugify(title)}_{doc_id[:8]}.json"
filename(doc_id, title, created_at) ==
  date_str(created_at) \o <<"_">> \o slugify(title) \o <<"_">>
    \o Prefix(doc_id, IdPrefixLen) \o <<".","j","s","o","n">>

(***************************************************************************)
(* Values of the cache                                                     *)
(***************************************************************************)
\* A string-valued key that is missing from a JSON object.
Absent == <<"ABSENT">>

IdA1 == <<"a","b","c","d","e","f","g","h","1">>
IdA2 == <<"a","b","c","d","e","f","g","h","2">>
IdB  == <<"z","b","c","d","e","f","g","h","3">>

\* Document ids; IdA1 and IdA2 agree on their first IdPrefixLen characters.
Ids == {IdA1, IdA2, IdB}

TitleQ3Bang == <<"Q","3","!">>
TitleQ3     == <<"q","3">>

DateMarMorning == <<"2","0","2","4","-","0","3","-","0","1","T","0","9",":","0","0","Z">>
DateMar        == <<"2","0","2","4","-","0","3","-","0","1">>
DateJan        == <<"2","0","2","4","-","0","1","-","0","1">>
DateWord       == <<"s","o","o","n">>

\* The (title, created_at) pairs a document of the cache may carry.
DocVals ==
  { [title |-> TitleQ3Bang, created_at |-> DateMarMorning],
    [title |-> TitleQ3,     created_at |-> DateMar],
    [title |-> TitleQ3,     created_at |-> DateJan],
    [title |-> TitleQ3,     created_at |-> DateWord],
    [title |-> Absent,      created_at |-> Absent] }

Segs1 == << [source |-> <<"A">>, text |-> <<"h","i">>],
            [source |-> Absent,  text |-> Absent] >>

\* What transcripts.get(doc_id) may find: no entry, a value that is not a
\* list, or a list of segments (possibly empty).
NoTranscript      == [kind |-> "absent",  segs |-> <<>>]
NonListTranscript == [kind |-> "nonlist", segs |-> <<>>]
ListTranscript(segs) == [kind |-> "list", segs |-> segs]

TVals == {NoTranscript, NonListTranscript, ListTranscript(<<>>), ListTranscript(Segs1)}

\* The documents of the cache in key order, and the transcripts by id.
EmptyDocuments == <<>>

EmptyTranscripts == [i \in Ids |-> NoTranscript]

\* The cache file: whether it exists and parses, the type of its `cache`
\* field, and, inside the decoded payload, the `state` object with its
\* `documents` and `transcripts` fields.  A field's kind is "absent" (no such
\* key), "dict" (a JSON object) or "other" (any other JSON value).
MkCache(file, blob, state, dkind, docs, tkind, trs) ==
  [file |-> file, blob |-> blob, state |-> state,
   documents   |-> [kind |-> dkind, items |-> docs],
   transcripts |-> [kind |-> tkind, map |-> trs]]

GoodCache(blob, docs, trs) == MkCache("json", blob, "dict", "dict", docs, "dict", trs)

BadCache(file, blob, state, dkind, tkind) ==
  MkCache(file, blob, state, dkind, EmptyDocuments, tkind, EmptyTranscripts)

\* Caches on which main does not reach the export loop with the documents
\* the file holds.
BrokenCaches ==
  { BadCache("absent",  "absent", "absent", "absent", "absent"),
    BadCache("notjson", "absent", "absent", "absent", "absent"),
    BadCache("json",    "absent", "absent", "absent", "absent"),
    BadCache("json",    "badstr", "absent", "absent", "absent"),
    BadCache("json",    "other",  "absent", "absent", "absent"),
    BadCache("json",    "dict",   "absent", "absent", "absent"),
    BadCache("json",    "str",    "absent", "absent", "absent"),
    BadCache("json",    "dict",   "other",  "absent", "absent"),
    BadCache("json",    "dict",   "dict",   "absent", "dict"),
    BadCache("json",    "dict",   "dict",   "dict",   "absent"),
    BadCache("json",    "dict",   "dict",   "other",  "dict"),
    BadCache("json",    "str",    "dict",   "dict",   "other") }

DocIds(docs) == { docs[i].id : i \in 1..Len(docs) }

\* len(transcripts)
TranscriptCount(trs) == Cardinality({ i \in Ids : trs[i] # NoTranscript })

(***************************************************************************)
(* Decoding the cache (lines 267-302)                                      *)
(***************************************************************************)
Decoded(status, docs, trs) == [status |-> status, documents |-> docs, transcripts |-> trs]

\* Mutant: a cache that cannot be read counts as a cache without documents.
DecodeCacheLenient(c) == Decoded("ok", EmptyDocuments, EmptyTranscripts)

\* status "ok": the loop runs on documents and transcripts;
\* status "fatal": sys.exit(1);
\* status "exception": an exception main does not catch.
DecodeCache(c) ==
  IF c.file = "absent" THEN Decoded("fatal", EmptyDocuments, EmptyTranscripts)
  ELSE IF c.file = "notjson" THEN Decoded("fatal", EmptyDocuments, EmptyTranscripts)
  ELSE IF c.blob = "badstr" THEN Decoded("fatal", EmptyDocuments, EmptyTranscripts)
  ELSE IF c.blob = "other" THEN Decoded("fatal", EmptyDocuments, EmptyTranscripts)
  ELSE
    LET \* data.get('cache', {}) is {} when the key is missing
        hasInner == c.blob \in {"str", "dict"}
        \* inner.get('state', {})
        stateKind == IF hasInner THEN c.state ELSE "absent"
    IN  IF stateKind = "other"
        THEN Decoded("exception", EmptyDocuments, EmptyTranscripts)
        ELSE
          LET \* state.get('documents', {}), state.get('transcripts', {})
              dkind == IF stateKind = "absent" \/ c.documents.kind = "absent"
                       THEN "dict" ELSE c.documents.kind
              tkind == IF stateKind = "absent" \/ c.transcripts.kind = "absent"
                       THEN "dict" ELSE c.transcripts.kind
              docs  == IF stateKind = "dict" /\ c.documents.kind = "dict"
                       THEN c.documents.items ELSE EmptyDocuments
              trs   == IF stateKind = "dict" /\ c.transcripts.kind = "dict"
                       THEN c.transcripts.map ELSE EmptyTranscripts
          IN  IF dkind # "dict" \/ tkind # "dict"
              THEN Decoded("fatal", EmptyDocuments, EmptyTranscripts)
              ELSE Decoded("ok", docs, trs)

(***************************************************************************)
(* The Index file and the meeting files                                    *)
(***************************************************************************)
\* Mutant: exported_count is the number of documents of the cache.
MkIndexCountingDocuments(kind, at, ndocs, ntrs, meetings) ==
  [kind |-> kind, exported_at |-> at, total_documents |-> ndocs,
   total_transcripts |-> ntrs, exported_count |-> ndocs,
   meetings |-> meetings]

\* The Index written on lines 391-398.
MkIndex(kind, at, ndocs, ntrs, meetings) ==
  [kind |-> kind, exported_at |-> at, total_documents |-> ndocs,
   total_transcripts |-> ntrs, exported_count |-> Len(meetings),
   meetings |-> meetings]

\* No index.json.
NoIndex == MkIndex("absent", 0, 0, 0, <<>>)

\* An index.json that is not JSON.
NotJsonIndex == MkIndex("notjson", 0, 0, 0, <<>>)

MeetingsPrefix == <<"m","e","e","t","i","n","g","s","/">>

\* The Index entry of a meeting (lines 375-383).
IndexEntry(doc_id, title, created_at, fname, segs) ==
  [id |-> doc_id, title |-> title, date |-> created_at,
   file |-> MeetingsPrefix \o fname, segment_count |-> Len(segs)]

\* An index.json one of whose entries has no "id".
NoIdIndex ==
  MkIndex("json", 0, 1, 1,
          << IndexEntry(Absent, TitleQ3, DateJan, filename(IdB, TitleQ3, DateJan), Segs1) >>)

\* The ids of the entries of an Index file.
IndexIds(ix) ==
  IF ix.kind # "json" THEN {}
  ELSE { ix.meetings[i].id : i \in 1..Len(ix.meetings) } \ {Absent}

\* The Index parses and every entry has an id.
WellFormed(ix) ==
  ix.kind = "json" /\ \A i \in 1..Len(ix.meetings) : ix.meetings[i].id # Absent

Unknown == <<"u","n","k","n","o","w","n">>

\* format_transcript (lines 36-46)
format_transcript(segments) ==
  [i \in 1..Len(segments) |->
     [speaker |-> IF segments[i].source = Absent THEN Unknown ELSE segments[i].source,
      text    |-> IF segments[i].text = Absent THEN <<>> ELSE segments[i].text]]

(***************************************************************************)
(* get_full_transcript_text (lines 49-71)                                  *)
(***************************************************************************)
IsWhitespace(c) == c \in {" ", "\t", "\n"}

\* s without its leading whitespace
RECURSIVE LStrip(_)
LStrip(s) ==
  IF s # <<>> /\ IsWhitespace(Head(s)) THEN LStrip(Tail(s)) ELSE s

\* s without its trailing whitespace
RECURSIVE RStrip(_)
RStrip(s) ==
  IF s # <<>> /\ IsWhitespace(s[Len(s)]) THEN RStrip(SubSeq(s, 1, Len(s) - 1)) ELSE s

\* str.strip()
strip(s) == RStrip(LStrip(s))

\* sep.join(parts)
RECURSIVE Join(_, _)
Join(parts, sep) ==
  IF parts = <<>> THEN <<>>
  ELSE IF Len(parts) = 1 THEN parts[1]
  ELSE parts[1] \o sep \o Join(Tail(parts), sep)

\* f"[{current_speaker}]: {' '.join(current_text)}"
SpeakerLine(current_speaker, current_text) ==
  <<"[">> \o current_speaker \o <<"]", ":", " ">> \o Join(current_text, <<" ">>)

\* Mutant: a line is appended also for a run without text.
FlushAlways(lines, current_speaker, current_text) ==
  Append(lines, SpeakerLine(current_speaker, current_text))

\* lines after the flush of lines 59-60 and 67-68
Flush(lines, current_speaker, current_text) ==
  IF current_text # <<>>
  THEN Append(lines, SpeakerLine(current_speaker, current_text))
  ELSE lines

\* The loop of lines 54-65 over segs, then lines 67-70.  Absent stands for
\* the None current_speaker starts with.
RECURSIVE TextLoop(_, _, _, _)
TextLoop(segs, lines, current_speaker, current_text) ==
  IF segs = <<>>
  THEN Join(Flush(lines, current_speaker, current_text), <<"\n", "\n">>)
  ELSE LET seg     == Head(segs)
           speaker == IF seg.source = Absent THEN Unknown ELSE seg.source
           text    == strip(IF seg.text = Absent THEN <<>> ELSE seg.text)
       IN  IF speaker # current_speaker
           THEN TextLoop(Tail(segs), Flush(lines, current_speaker, current_text),
                         speaker, IF text # <<>> THEN <<text>> ELSE <<>>)
           ELSE TextLoop(Tail(segs), lines, current_speaker,
                         IF text # <<>> THEN Append(current_text, text)
                         ELSE current_text)

get_full_transcript_text(segments) == TextLoop(segments, <<>>, Absent, <<>>)

\* The meeting written to a file (lines 356-368).
Meeting(doc_id, title, created_at, segs) ==
  [kind |-> "json", id |-> doc_id, title |-> title, date |-> created_at,
   transcript_segments |-> format_transcript(segs),
   transcript_text |-> get_full_transcript_text(segs)]

\* A meeting file that open() truncated and json.dump did not finish.
PartialFile ==
  [kind |-> "partial", id |-> <<>>, title |-> <<>>, date |-> <<>>,
   transcript_segments |-> <<>>, transcript_text |-> <<>>]

\* Mutant: a file that exists is left as it is.
WriteFileKeep(fs, name, content) ==
  [f \in (DOMAIN fs) \cup {name} |-> IF f \in DOMAIN fs THEN fs[f] ELSE content]

\* files with name holding content
WriteFile(fs, name, content) ==
  [f \in (DOMAIN fs) \cup {name} |-> IF f = name THEN content ELSE fs[f]]

NoFiles == [f \in {} |-> PartialFile]

(***************************************************************************)
(* Sorting the meetings (lines 388-389)                                    *)
(***************************************************************************)
\* x.get("date", "")
DateKey(m) == IF m.date = Absent THEN <<>> ELSE m.date

\* Mutant: the list keeps the order of insertion.
InsertLast(sorted, e) == Append(sorted, e)

\* e goes behind every entry whose key is not smaller than its own.
InsertDesc(sorted, e) ==
  LET n == Cardinality({ i \in 1..Len(sorted) : ~StrLess(DateKey(sorted[i]), DateKey(e)) })
  IN  SubSeq(sorted, 1, n) \o <<e>> \o SubSeq(sorted, n + 1, Len(sorted))

\* list.sort(key=..., reverse=True): descending, and stable.
RECURSIVE SortByDateDesc(_)
SortByDateDesc(ms) ==
  IF ms = <<>> THEN <<>>
  ELSE InsertDesc(SortByDateDesc(SubSeq(ms, 1, Len(ms) - 1)), ms[Len(ms)])

UntitledMeeting ==
  <<"U","n","t","i","t","l","e","d"," ","M","e","e","t","i","n","g">>

(***************************************************************************)
(* Bounds of the model                                                     *)
(***************************************************************************)
\* Runs of main in one behaviour.
MaxRuns == 2

\* Changes of the cache file between runs in one behaviour.
MaxEdits == 1

\* Documents in the cache.
MaxDocs == 2

\* Documents in the cache the first run reads.
MaxInitDocs == 1

\* The new-record count handed to run_sync when it is checked on its own.
MaxNew == 2

\* Segments in the transcript get_full_transcript_text is checked on.
MaxSegs == 3

\* The processes that may run main.
Procs == {1, 2}

(***************************************************************************)
(* State                                                                   *)
(***************************************************************************)
VARIABLES
  cache,        \* the Granola cache file (CACHE_PATH)
  indexFile,    \* index.json (INDEX_PATH)
  files,        \* the files of meetings/ (MEETINGS_DIR), by filename
  config,       \* the sync configuration file (CONFIG_PATH)
  git,          \* the git collaborator: .git directory, client, remote origin
  gitDirty,     \* git status --porcelain would report changes
  repoRoot,     \* the meeting files copied to the root of EXPORT_DIR
  run,          \* per process: the locals of main in a run in progress
  hist,         \* the last two finished runs, oldest first
  everWritten,  \* ids whose meeting file was written successfully at some time
  nruns,        \* runs started
  nedits        \* cache changes made

vars == <<cache, indexFile, files, config, git, gitDirty, repoRoot,
          run, hist, everWritten, nruns, nedits>>

\* The locals of main (lines 283-385); cacheRead .. alreadyIds record what
\* the run read and did, indexComputed the Index it wrote.
IdleRun ==
  [pc |-> "idle", documents |-> EmptyDocuments, transcripts |-> EmptyTranscripts,
   existing_ids |-> {}, existing_meetings |-> <<>>, pos |-> 1,
   new_count |-> 0, skipped_no_transcript |-> 0, already_exported |-> 0,
   cacheRead |-> BadCache("absent", "absent", "absent", "absent", "absent"),
   indexLoaded |-> NoIndex, filesAtStart |-> NoFiles, indexWritten |-> FALSE,
   indexComputed |-> NoIndex,
   built |-> {}, wrote |-> {}, skippedIds |-> {}, alreadyIds |-> {}]

\* No sync was attempted.
NoSync ==
  [called |-> FALSE, raised |-> FALSE, result |-> "none", log |-> <<>>,
   failed |-> "", dirtyBefore |-> FALSE, rootBefore |-> NoFiles]

\* What a finished run leaves in hist.
Summary(r, status, sync, ix, fs) ==
  [status |-> status, sync |-> sync, indexAfter |-> ix,
   filesAfter |-> fs,
   cacheRead |-> r.cacheRead, indexLoaded |-> r.indexLoaded,
   filesAtStart |-> r.filesAtStart, indexWritten |-> r.indexWritten,
   indexComputed |-> r.indexComputed,
   documents |-> r.documents, transcripts |-> r.transcripts,
   existing_ids |-> r.existing_ids,
   new_count |-> r.new_count, skipped_no_transcript |-> r.skipped_no_transcript,
   already_exported |-> r.already_exported,
   built |-> r.built, wrote |-> r.wrote,
   skippedIds |-> r.skippedIds, alreadyIds |-> r.alreadyIds]

\* The run of p ends: main returns, exits or dies of an exception.
\* ix and fs are index.json and meetings/ as the run leaves them.
Finish(p, r, status, sync, ix, fs) ==
  /\ hist' = (IF Len(hist) = 2 THEN Tail(hist) ELSE hist)
                \o <<Summary(r, status, sync, ix, fs)>>
  /\ run' = [run EXCEPT ![p] = IdleRun]

(***************************************************************************)
(* main, up to the export loop (lines 266-325)                             *)
(***************************************************************************)
\* Mutant: the entries of the prior Index are dropped.
LoadedMeetingsFresh(ix) == <<>>

\* existing_meetings after lines 310-321
LoadedMeetings(ix) == IF ix.kind = "json" THEN ix.meetings ELSE <<>>

\* existing_ids after lines 310-321: the KeyError of an entry without "id"
\* leaves the empty set.
LoadedIds(ix) ==
  IF WellFormed(ix)
  THEN { ix.meetings[i].id : i \in 1..Len(ix.meetings) }
  ELSE {}

StartRun(p) ==
  /\ run[p].pc = "idle"
  /\ nruns < MaxRuns
  /\ nruns' = nruns + 1
  /\ LET d == DecodeCache(cache)
         r == [IdleRun EXCEPT !.cacheRead = cache, !.indexLoaded = indexFile,
                              !.filesAtStart = files]
     IN  IF d.status # "ok"
         THEN Finish(p, r, d.status, NoSync, indexFile, files)
         ELSE /\ run' = [run EXCEPT ![p] =
                    [r EXCEPT !.pc = "loop",
                              !.documents = d.documents,
                              !.transcripts = d.transcripts,
                              !.existing_meetings = LoadedMeetings(indexFile),
                              !.existing_ids = LoadedIds(indexFile)]]
              /\ UNCHANGED hist
  /\ UNCHANGED <<cache, indexFile, files, config, git, gitDirty, repoRoot,
                 everWritten, nedits>>

(***************************************************************************)
(* One iteration of the export loop (lines 327-386)                        *)
(***************************************************************************)
\* Mutant: the membership test never skips.
AlreadyExportedNever(doc_id, existing_ids) == FALSE

\* line 329
AlreadyExported(doc_id, existing_ids) == doc_id \in existing_ids

\* Mutant: an empty list is not skipped.
SkipOnlyNonList(t) == t.kind # "list"

\* line 337, on transcripts.get(doc_id, [])
SkipNoTranscript(t) == t.kind # "list" \/ Len(t.segs) = 0

\* doc.get("title", "Untitled Meeting")
TitleOf(doc) == IF doc.title = Absent THEN UntitledMeeting ELSE doc.title

\* doc.get("created_at", "")
CreatedAtOf(doc) == IF doc.created_at = Absent THEN <<>> ELSE doc.created_at

ProcessDoc(p) ==
  LET r == run[p] IN
  /\ r.pc = "loop"
  /\ r.pos <= Len(r.documents)
  /\ LET doc   == r.documents[r.pos]
         t     == r.transcripts[doc.id]
         fname == filename(doc.id, TitleOf(doc), CreatedAtOf(doc))
         next  == [r EXCEPT !.pos = r.pos + 1]
     IN  IF AlreadyExported(doc.id, r.existing_ids)
         THEN /\ run' = [run EXCEPT ![p] =
                    [next EXCEPT !.already_exported = r.already_exported + 1,
                                 !.alreadyIds = r.alreadyIds \cup {doc.id}]]
              /\ UNCHANGED <<files, everWritten, gitDirty, hist>>
         ELSE IF SkipNoTranscript(t)
         THEN /\ run' = [run EXCEPT ![p] =
                    [next EXCEPT !.skipped_no_transcript = r.skipped_no_transcript + 1,
                                 !.skippedIds = r.skippedIds \cup {doc.id}]]
              /\ UNCHANGED <<files, everWritten, gitDirty, hist>>
         ELSE
           \/ \* the file is written
              /\ files' = WriteFile(files, fname,
                            Meeting(doc.id, TitleOf(doc), CreatedAtOf(doc), t.segs))
              /\ everWritten' = everWritten \cup {doc.id}
              /\ gitDirty' = (gitDirty \/ git.git_dir)
              /\ run' = [run EXCEPT ![p] =
                    [next EXCEPT
                       !.existing_meetings = Append(r.existing_meetings,
                           IndexEntry(doc.id, TitleOf(doc), CreatedAtOf(doc), fname, t.segs)),
                       !.new_count = r.new_count + 1,
                       !.built = r.built \cup {doc.id},
                       !.wrote = r.wrote \cup {fname}]]
              /\ UNCHANGED hist
           \/ \* open() raises: the exception ends main
              /\ UNCHANGED <<files, everWritten, gitDirty>>
              /\ Finish(p, [r EXCEPT !.built = r.built \cup {doc.id}], "exception", NoSync,
                        indexFile, files)
           \/ \* json.dump raises after open() truncated the file
              /\ files' = WriteFile(files, fname, PartialFile)
              /\ gitDirty' = (gitDirty \/ git.git_dir)
              /\ UNCHANGED everWritten
              /\ Finish(p, [r EXCEPT !.built = r.built \cup {doc.id},
                                     !.wrote = r.wrote \cup {fname}],
                        "exception", NoSync, indexFile, files')
  /\ UNCHANGED <<cache, indexFile, config, git, repoRoot, nruns, nedits>>

\* The process is killed inside the export loop: the files written so far
\* stay, the Index is not written and run_sync is not reached.
Interrupt(p) ==
  LET r == run[p] IN
  /\ r.pc = "loop"
  /\ Finish(p, r, "killed", NoSync, indexFile, files)
  /\ UNCHANGED <<cache, indexFile, files, config, git, gitDirty, repoRoot,
                 everWritten, nruns, nedits>>

(***************************************************************************)
(* Sorting and writing the Index (lines 388-408)                           *)
(***************************************************************************)
\* Mutant: the entries index.json holds by now are merged in.
PersistedMeetingsMerged(r, ix) ==
  LET mine   == { r.existing_meetings[i].id : i \in 1..Len(r.existing_meetings) }
      theirs == SelectSeq(LoadedMeetings(ix), LAMBDA m : m.id \notin mine)
  IN  SortByDateDesc(r.existing_meetings \o theirs)

\* The meetings written on lines 391-402: the list of the run, sorted; ix,
\* index.json as it is by now, is not read again.
PersistedMeetings(r, ix) == SortByDateDesc(r.existing_meetings)

\* datetime.now() on line 392: later than the exported_at of the Index on disc.
Now(ix) == ix.exported_at + 1

Persist(p) ==
  LET r == run[p] IN
  /\ r.pc = "loop"
  /\ r.pos > Len(r.documents)
  /\ LET sorted == PersistedMeetings(r, indexFile)
         ix     == MkIndex("json", Now(indexFile), Len(r.documents),
                           TranscriptCount(r.transcripts), sorted)
     IN  /\ indexFile' = ix
         /\ run' = [run EXCEPT ![p] = [r EXCEPT !.pc = "sync",
                                                !.existing_meetings = sorted,
                                                !.indexWritten = TRUE,
                                                !.indexComputed = ix]]
  /\ gitDirty' = (gitDirty \/ git.git_dir)
  /\ UNCHANGED <<cache, files, config, git, repoRoot, hist, everWritten,
                 nruns, nedits>>

(***************************************************************************)
(* The sync configuration (lines 92-100) and the git collaborator          *)
(***************************************************************************)
RepoOrg    == <<"o","/","r">>
RepoOrgGit == <<"o","/","r",".","g","i","t">>

UrlMatching == <<"h","/","o","/","r",".","g","i","t">>
UrlOther    == <<"h","/","x","/","r">>

ShellCommand == <<"r","s","y","n","c">>

\* The configuration file: missing, not JSON, a JSON value that is not an
\* object, or an object whose keys are each "absent", or present with a value.
MkConfig(kind, enabled, method, repo, command, onNoNew) ==
  [kind |-> kind, sync_enabled |-> enabled, sync_method |-> method,
   github_repo |-> repo, sync_command |-> command, sync_on_no_new |-> onNoNew]

EmptyConfig == MkConfig("dict", "absent", "absent", Absent, Absent, "absent")

NoConfigFile == [EmptyConfig EXCEPT !.kind = "absent"]

MalformedConfigFile == [EmptyConfig EXCEPT !.kind = "malformed"]

NonDictConfigFile == [EmptyConfig EXCEPT !.kind = "nondict"]

DictConfigs ==
  { MkConfig("dict", e, m, r, c, n) :
      e \in {"absent", "false", "true"},
      m \in {"absent", "github", "command", "other"},
      r \in {Absent, <<>>, RepoOrg, RepoOrgGit},
      c \in {Absent, ShellCommand},
      n \in {"absent", "false", "true"} }

Configs == DictConfigs \cup {NoConfigFile, MalformedConfigFile, NonDictConfigFile}

\* load_config: {} for a missing or malformed file, else the parsed value.
load_config(cfgFile) ==
  IF cfgFile.kind \in {"absent", "malformed"} THEN EmptyConfig ELSE cfgFile

\* config.get(key, False) as a condition
Truthy(v) == v = "true"

\* config.get("github_repo", "") and config.get("sync_command", "")
StrOrEmpty(v) == IF v = Absent THEN <<>> ELSE v

\* The git collaborator: whether EXPORT_DIR/.git exists, whether the git
\* client can be started, and the URL of remote origin (Absent: git remote
\* get-url origin exits non-zero).
MkGit(dir, installed, remote) ==
  [git_dir |-> dir, installed |-> installed, remote |-> remote]

Gits ==
  { MkGit(d, i, u) : d \in BOOLEAN, i \in BOOLEAN,
                     u \in {Absent, <<>>, UrlMatching, UrlOther} }

\* git_has_changes (lines 103-114); "raise" when the client cannot be started
git_has_changes(g, dirty) ==
  IF ~g.git_dir THEN "false"
  ELSE IF ~g.installed THEN "raise"
  ELSE IF dirty THEN "true" ELSE "false"

\* repo[:-4] if repo.endswith(".git") else repo (line 121)
StripDotGit(repo) ==
  IF EndsWith(repo, <<".","g","i","t">>) THEN SubSeq(repo, 1, Len(repo) - 4) ELSE repo

\* Mutant: every remote URL is taken to match.
remote_matches_any(repo, url) == TRUE

\* remote_matches_repo (lines 117-122)
remote_matches_repo(repo, url) ==
  IF repo = <<>> \/ url = <<>> THEN FALSE
  ELSE Contains(url, StripDotGit(repo))

(***************************************************************************)
(* sync_github (lines 125-207)                                             *)
(***************************************************************************)
CmdRemote == "git remote get-url origin"
CmdCopy   == "copy meetings/*.json"
CmdAdd    == "git add -A"
CmdStatus == "git status --porcelain"
CmdCommit == "git commit"
CmdPush   == "git push origin"
CmdShell  == "shell sync_command"

\* What a sync leaves: whether an exception reached the caller of run_sync,
\* the boolean sync_github or sync_command returned ("none" when neither was
\* called), the steps issued in order, and the working tree.
\* failed names the command of sync_github that did not succeed, if any.
SyncOutcome(raised, result, log, dirty, root) ==
  [raised |-> raised, result |-> result, log |-> log, dirty |-> dirty, root |-> root,
   failed |-> ""]

\* The outcome in which the last command of the log did not succeed.
FailedOutcome(result, log, dirty, root) ==
  [SyncOutcome(FALSE, result, log, dirty, root) EXCEPT !.failed = log[Len(log)]]

\* shutil.copy2 of every meeting file to the root of EXPORT_DIR (lines 156-160)
CopyMeetings(fs, root) ==
  [f \in (DOMAIN root) \cup (DOMAIN fs) |-> IF f \in DOMAIN fs THEN fs[f] ELSE root[f]]

\* lines 141-152: the sync goes on to copy and stage
RemoteAccepted(repo, g) ==
  g.remote # Absent /\ remote_matches_repo(repo, g.remote)

\* Lines 171-180: what the status check makes of git status --porcelain.
\* ran is FALSE when the command exits non-zero: it prints nothing to
\* stdout then, and its return code is not looked at.
StatusResult(ran, staged) == IF ran /\ staged THEN "changes" ELSE "clean"

\* The outcomes of the steps after the remote check (lines 154-207).  The
\* copy, a git command that cannot be started, and git add, commit and push
\* exiting non-zero (check=True) end the sync with False.
GithubSteps(fs, dirty, root) ==
  LET copied == CopyMeetings(fs, root)
      staged == dirty \/ copied # root
      upTo(cmds) == <<CmdRemote>> \o cmds
      afterStatus(ran) ==
        IF StatusResult(ran, staged) = "clean"
        THEN { IF ran
               THEN SyncOutcome(FALSE, "true", upTo(<<CmdCopy, CmdAdd, CmdStatus>>),
                                staged, copied)
               ELSE FailedOutcome("true", upTo(<<CmdCopy, CmdAdd, CmdStatus>>),
                                  staged, copied) }
        ELSE { FailedOutcome("false",
                             upTo(<<CmdCopy, CmdAdd, CmdStatus, CmdCommit>>), TRUE, copied),
               FailedOutcome("false",
                             upTo(<<CmdCopy, CmdAdd, CmdStatus, CmdCommit, CmdPush>>),
                             FALSE, copied),
               SyncOutcome(FALSE, "true",
                           upTo(<<CmdCopy, CmdAdd, CmdStatus, CmdCommit, CmdPush>>),
                           FALSE, copied) }
  IN  { FailedOutcome("false", upTo(<<CmdCopy>>), dirty, root),
        FailedOutcome("false", upTo(<<CmdCopy, CmdAdd>>), staged, copied),
        \* git status cannot be started
        FailedOutcome("false", upTo(<<CmdCopy, CmdAdd, CmdStatus>>), staged, copied) }
      \cup afterStatus(TRUE) \cup afterStatus(FALSE)

sync_github(cfg, g, fs, dirty, root) ==
  LET repo == StrOrEmpty(cfg.github_repo)
  IN  IF repo = <<>> THEN { SyncOutcome(FALSE, "false", <<>>, dirty, root) }
      ELSE IF ~g.git_dir THEN { SyncOutcome(FALSE, "false", <<>>, dirty, root) }
      ELSE IF ~g.installed
           THEN { SyncOutcome(FALSE, "false", <<CmdRemote>>, dirty, root) }
      ELSE IF ~RemoteAccepted(repo, g)
           THEN { SyncOutcome(FALSE, "false", <<CmdRemote>>, dirty, root) }
      ELSE GithubSteps(fs, dirty, root)

(***************************************************************************)
(* sync_command (lines 210-236)                                            *)
(***************************************************************************)
\* The command exits zero, exits non-zero, or cannot be started.
sync_command(cfg, dirty, root) ==
  IF StrOrEmpty(cfg.sync_command) = <<>>
  THEN { SyncOutcome(FALSE, "false", <<>>, dirty, root) }
  ELSE { SyncOutcome(FALSE, "true",  <<CmdShell>>, dirty, root),
         SyncOutcome(FALSE, "false", <<CmdShell>>, dirty, root) }

(***************************************************************************)
(* run_sync (lines 239-263)                                                *)
(***************************************************************************)
\* Mutant: the sync_enabled gate is gone.
SyncDisabledNever(cfg) == FALSE

\* line 243
SyncDisabled(cfg) == ~Truthy(cfg.sync_enabled)

\* line 246
SkipNoNew(new_count) == new_count = 0

run_sync(cfgFile, new_count, g, fs, dirty, root) ==
  LET cfg  == load_config(cfgFile)
      skip == { SyncOutcome(FALSE, "none", <<>>, dirty, root) }
  IN  IF cfg.kind = "nondict"
      THEN \* config.get raises AttributeError
           { SyncOutcome(TRUE, "none", <<>>, dirty, root) }
      ELSE IF SyncDisabled(cfg) THEN skip
      ELSE IF SkipNoNew(new_count) THEN skip
      ELSE IF cfg.sync_method = "github"
           THEN IF new_count = 0 /\ git_has_changes(g, dirty) = "raise"
                THEN { SyncOutcome(TRUE, "none", <<CmdStatus>>, dirty, root) }
                ELSE IF new_count = 0 /\ git_has_changes(g, dirty) = "false"
                THEN { SyncOutcome(FALSE, "none",
                                   IF g.git_dir THEN <<CmdStatus>> ELSE <<>>, dirty, root) }
                ELSE { [o EXCEPT !.log = (IF new_count = 0 THEN <<CmdStatus>> ELSE <<>>) \o o.log]
                       : o \in sync_github(cfg, g, fs, dirty, root) }
      ELSE IF cfg.sync_method = "command"
           THEN IF new_count = 0 /\ ~Truthy(cfg.sync_on_no_new)
                THEN skip
                ELSE sync_command(cfg, dirty, root)
      ELSE skip

\* The last step of main (lines 410-414).
RunSync(p) ==
  LET r == run[p] IN
  /\ r.pc = "sync"
  /\ \E o \in run_sync(config, r.new_count, git, files, gitDirty, repoRoot) :
       /\ gitDirty' = o.dirty
       /\ repoRoot' = o.root
       /\ Finish(p, r, IF o.raised THEN "exception" ELSE "ok",
                 [called |-> TRUE, raised |-> o.raised, result |-> o.result, log |-> o.log,
                  failed |-> o.failed,
                  dirtyBefore |-> gitDirty, rootBefore |-> repoRoot],
                 indexFile, files)
  /\ UNCHANGED <<cache, indexFile, files, config, git, everWritten, nruns, nedits>>

(***************************************************************************)
(* The environment: the cache file changes between runs                    *)
(***************************************************************************)
DocRecs == { [id |-> i, title |-> v.title, created_at |-> v.created_at] :
               i \in Ids, v \in DocVals }

\* The sequences of at most n documents with distinct ids.
DocSeqs(n) ==
  UNION { { s \in [1..k -> DocRecs] : \A i, j \in 1..k : i # j => s[i].id # s[j].id }
          : k \in 0..n }

Idle == \A p \in Procs : run[p].pc = "idle"

CanEdit ==
  /\ Idle
  /\ hist # <<>>
  /\ nedits < MaxEdits
  /\ nedits' = nedits + 1
  /\ UNCHANGED <<indexFile, files, config, git, gitDirty, repoRoot, run, hist,
                 everWritten, nruns>>

HoldsDocuments(c) ==
  c.file = "json" /\ c.blob \in {"str", "dict"} /\ c.state = "dict"
    /\ c.documents.kind = "dict" /\ c.transcripts.kind = "dict"

\* Document d with transcript entry t appears at the end of the cache.
AppendDoc(d, t) ==
  /\ HoldsDocuments(cache)
  /\ Len(cache.documents.items) < MaxDocs
  /\ d.id \notin DocIds(cache.documents.items)
  /\ cache' = [cache EXCEPT !.documents.items = Append(@, d),
                            !.transcripts.map[d.id] = t]

AddDoc ==
  /\ CanEdit
  /\ \E d \in DocRecs, t \in TVals : AppendDoc(d, t)

\* A document leaves the cache, with its transcript entry.
RemoveDoc ==
  /\ CanEdit
  /\ HoldsDocuments(cache)
  /\ \E i \in 1..Len(cache.documents.items) :
       cache' = [cache EXCEPT
                   !.documents.items = SubSeq(@, 1, i - 1) \o SubSeq(@, i + 1, Len(@)),
                   !.transcripts.map[cache.documents.items[i].id] = NoTranscript]

\* The title and date of a document change.
ChangeDoc ==
  /\ CanEdit
  /\ HoldsDocuments(cache)
  /\ \E i \in 1..Len(cache.documents.items), v \in DocVals :
       /\ v # [title |-> cache.documents.items[i].title,
               created_at |-> cache.documents.items[i].created_at]
       /\ cache' = [cache EXCEPT !.documents.items[i].title = v.title,
                                 !.documents.items[i].created_at = v.created_at]

\* The transcript entry of an id changes.
SetTranscript ==
  /\ CanEdit
  /\ HoldsDocuments(cache)
  /\ \E i \in Ids, t \in TVals :
       /\ t # cache.transcripts.map[i]
       /\ cache' = [cache EXCEPT !.transcripts.map[i] = t]

\* The cache file disappears or changes its shape.
BreakCache ==
  /\ CanEdit
  /\ \E c \in BrokenCaches :
       /\ c # cache
       /\ cache' = c

(***************************************************************************)
(* The specification of consecutive runs                                   *)
(***************************************************************************)
\* The transcripts of a cache whose entries belong to its documents.
TranscriptMaps(docs) ==
  { m \in [Ids -> TVals] : \A i \in Ids : i \notin DocIds(docs) => m[i] = NoTranscript }

InitCaches ==
  BrokenCaches \cup
  UNION { { GoodCache("str", docs, trs) : trs \in TranscriptMaps(docs) }
          : docs \in DocSeqs(MaxInitDocs) }

CommandConfig == MkConfig("dict", "true", "command", Absent, ShellCommand, "absent")

MainConfigs == {NoConfigFile, CommandConfig}

MainGit == MkGit(TRUE, TRUE, UrlMatching)

InitRun == [p \in Procs |-> IdleRun]

\* An archive an earlier run left: the meeting of IdA1 and its Index entry.
PriorFile == filename(IdA1, TitleQ3, DateMar)

PriorIndex ==
  MkIndex("json", 0, 1, 1, << IndexEntry(IdA1, TitleQ3, DateMar, PriorFile, Segs1) >>)

PriorFiles == WriteFile(NoFiles, PriorFile, Meeting(IdA1, TitleQ3, DateMar, Segs1))

\* The archive before the first run: nothing, an Index that cannot be used,
\* or the archive of an earlier run.
InitArchives ==
  { [index |-> NoIndex,      files |-> NoFiles,    written |-> {}],
    [index |-> NotJsonIndex, files |-> NoFiles,    written |-> {}],
    [index |-> NoIdIndex,    files |-> NoFiles,    written |-> {}],
    [index |-> PriorIndex,   files |-> PriorFiles, written |-> {IdA1}] }

Init ==
  /\ cache \in InitCaches
  /\ \E a \in InitArchives :
       /\ indexFile = a.index
       /\ files = a.files
       /\ everWritten = a.written
  /\ config \in MainConfigs
  /\ git = MainGit
  /\ gitDirty = FALSE
  /\ repoRoot = NoFiles
  /\ run = InitRun
  /\ hist = <<>>
  /\ nruns = 0
  /\ nedits = 0

\* The scheduler never lets two runs overlap: p starts when no run is in progress.
StartAlone(p) == Idle /\ StartRun(p)

Next ==
  \/ StartAlone(1)
  \/ ProcessDoc(1)
  \/ Persist(1)
  \/ RunSync(1)
  \/ AddDoc
  \/ RemoveDoc
  \/ ChangeDoc
  \/ SetTranscript
  \/ BreakCache

Spec == Init /\ [][Next]_vars

(***************************************************************************)
(* The specification of run_sync on its own: main has written the Index    *)
(* and calls run_sync(new_count) under every configuration and every state *)
(* of the git collaborator.                                                *)
(***************************************************************************)
InitSync ==
  /\ cache = GoodCache("str", EmptyDocuments, EmptyTranscripts)
  /\ indexFile = PriorIndex
  /\ files = PriorFiles
  /\ everWritten = {IdA1}
  /\ config \in Configs
  /\ git \in Gits
  /\ gitDirty \in BOOLEAN
  /\ repoRoot \in {NoFiles, PriorFiles}
  /\ \E n \in 0..MaxNew :
       run = [InitRun EXCEPT ![1] = [IdleRun EXCEPT !.pc = "sync", !.new_count = n,
                                                     !.cacheRead = cache,
                                                     !.indexLoaded = PriorIndex,
                                                     !.filesAtStart = PriorFiles,
                                                     !.existing_ids = {IdA1},
                                                     !.existing_meetings = PriorIndex.meetings,
                                                     !.indexWritten = TRUE]]
  /\ hist = <<>>
  /\ nruns = 1
  /\ nedits = 0

NextSync == RunSync(1)

SpecSync == InitSync /\ [][NextSync]_vars

(***************************************************************************)
(* The specification of runs that may be interrupted: the cache holds up   *)
(* to MaxDocs documents from the start and does not change.                *)
(***************************************************************************)
\* Every document has a transcript of segments or none.
RerunTranscripts(docs) ==
  { m \in TranscriptMaps(docs) :
      \A i \in Ids : m[i] \in {NoTranscript, ListTranscript(Segs1)} }

RerunCaches ==
  UNION { { GoodCache("str", docs, trs) : trs \in RerunTranscripts(docs) }
          : docs \in DocSeqs(MaxDocs) }

InitRerun ==
  /\ cache \in RerunCaches
  /\ \E a \in InitArchives :
       /\ indexFile = a.index
       /\ files = a.files
       /\ everWritten = a.written
  /\ config = NoConfigFile
  /\ git = MainGit
  /\ gitDirty = FALSE
  /\ repoRoot = NoFiles
  /\ run = InitRun
  /\ hist = <<>>
  /\ nruns = 0
  /\ nedits = 0

NextRerun ==
  \/ StartAlone(1)
  \/ ProcessDoc(1)
  \/ Interrupt(1)
  \/ Persist(1)
  \/ RunSync(1)

SpecRerun == InitRerun /\ [][NextRerun]_vars

(***************************************************************************)
(* The specification of get_full_transcript_text: main exports one         *)
(* document whose transcript is any sequence of at most MaxSegs segments.  *)
(***************************************************************************)
\* Segments of two speakers and of no named speaker; texts that are missing,
\* empty, blank, plain, and padded with spaces.
TextSegs ==
  { [source |-> <<"A">>, text |-> <<"h", "i">>],
    [source |-> <<"A">>, text |-> <<>>],
    [source |-> <<"A">>, text |-> <<" ">>],
    [source |-> <<"A">>, text |-> <<" ", "x", " ">>],
    [source |-> <<"B">>, text |-> <<"y", "o">>],
    [source |-> <<"B">>, text |-> <<>>],
    [source |-> Absent,  text |-> Absent],
    [source |-> Absent,  text |-> <<"h", "i">>] }

SegSeqs(n) == UNION { [1..k -> TextSegs] : k \in 1..n }

TextDoc == [id |-> IdB, title |-> TitleQ3, created_at |-> DateMar]

InitText ==
  /\ cache \in { GoodCache("str", <<TextDoc>>,
                           [EmptyTranscripts EXCEPT ![IdB] = ListTranscript(segs)])
                 : segs \in SegSeqs(MaxSegs) }
  /\ indexFile = NoIndex
  /\ files = NoFiles
  /\ everWritten = {}
  /\ config = NoConfigFile
  /\ git = MainGit
  /\ gitDirty = FALSE
  /\ repoRoot = NoFiles
  /\ run = InitRun
  /\ hist = <<>>
  /\ nruns = 0
  /\ nedits = 0

NextText ==
  \/ StartAlone(1)
  \/ ProcessDoc(1)
  \/ Persist(1)
  \/ RunSync(1)

SpecText == InitText /\ [][NextText]_vars

(***************************************************************************)
(* The specification of overlapping runs: two processes run main with no   *)
(* lock between them, and Granola adds a meeting to the cache while a run  *)
(* is in progress.                                                         *)
(***************************************************************************)
\* Meetings with a transcript; IdA1 and IdA2 get the same filename.
RaceDocs == { [id |-> i, title |-> TitleQ3, created_at |-> DateMar] : i \in Ids }

RaceCache(docs) ==
  GoodCache("str", docs,
            [i \in Ids |-> IF i \in DocIds(docs) THEN ListTranscript(Segs1)
                           ELSE NoTranscript])

InitRace ==
  /\ cache \in { RaceCache(docs) : docs \in {<<>>} \cup { <<d>> : d \in RaceDocs } }
  /\ \E a \in InitArchives :
       /\ a.index \in {NoIndex, PriorIndex}
       /\ indexFile = a.index
       /\ files = a.files
       /\ everWritten = a.written
  /\ config = NoConfigFile
  /\ git = MainGit
  /\ gitDirty = FALSE
  /\ repoRoot = NoFiles
  /\ run = InitRun
  /\ hist = <<>>
  /\ nruns = 0
  /\ nedits = 0

\* A meeting arrives in the cache while a run is in progress.
AddDocDuringRun ==
  /\ ~Idle
  /\ nedits < MaxEdits
  /\ nedits' = nedits + 1
  /\ \E d \in RaceDocs : AppendDoc(d, ListTranscript(Segs1))
  /\ UNCHANGED <<indexFile, files, config, git, gitDirty, repoRoot, run, hist,
                 everWritten, nruns>>

NextRace ==
  \/ \E p \in Procs :
       \/ StartRun(p)
       \/ ProcessDoc(p)
       \/ Persist(p)
       \/ RunSync(p)
  \/ AddDocDuringRun

SpecRace == InitRace /\ [][NextRace]_vars

(***************************************************************************)
(* main as one function of the cache and the archive it starts from, every *)
(* write succeeding (lines 283-402)                                        *)
(***************************************************************************)
\* The export loop over docs: the entries and the files it ends with.
RECURSIVE ExportLoop(_, _, _, _, _)
ExportLoop(docs, trs, ids, meetings, fs) ==
  IF docs = <<>> THEN [meetings |-> meetings, files |-> fs]
  ELSE LET doc   == Head(docs)
           t     == trs[doc.id]
           fname == filename(doc.id, TitleOf(doc), CreatedAtOf(doc))
       IN  IF AlreadyExported(doc.id, ids) \/ SkipNoTranscript(t)
           THEN ExportLoop(Tail(docs), trs, ids, meetings, fs)
           ELSE ExportLoop(Tail(docs), trs, ids,
                  Append(meetings,
                         IndexEntry(doc.id, TitleOf(doc), CreatedAtOf(doc), fname, t.segs)),
                  WriteFile(fs, fname,
                            Meeting(doc.id, TitleOf(doc), CreatedAtOf(doc), t.segs)))

\* The Index and the files one uninterrupted run on cache c leaves when it
\* starts from Index ix and files fs.
UninterruptedRun(c, ix, fs) ==
  LET d   == DecodeCache(c)
      out == ExportLoop(d.documents, d.transcripts, LoadedIds(ix), LoadedMeetings(ix), fs)
  IN  [index |-> MkIndex("json", 0, Len(d.documents), TranscriptCount(d.transcripts),
                         SortByDateDesc(out.meetings)),
       files |-> out.files]

(***************************************************************************)
(* Properties of consecutive runs                                          *)
(***************************************************************************)
Finished == { hist[k] : k \in 1..Len(hist) }

\* The run got through its loop and wrote index.json.
Completed(h) == h.indexWritten

\* Two Index files agree in everything but exported_at.
SameIndexContent(a, b) ==
  /\ a.kind = b.kind
  /\ a.meetings = b.meetings
  /\ a.exported_count = b.exported_count
  /\ a.total_documents = b.total_documents
  /\ a.total_transcripts = b.total_transcripts

\* The Index a run loaded was missing or well formed.
UsablePrior(h) == h.indexLoaded.kind = "absent" \/ WellFormed(h.indexLoaded)

\* Two completed runs in a row that read the same cache.
TwiceUnchanged ==
  /\ Len(hist) = 2
  /\ Completed(hist[1]) /\ Completed(hist[2])
  /\ UsablePrior(hist[1])
  /\ hist[2].cacheRead = hist[1].cacheRead

\* C1: when the export runs twice in a row on an unchanged cache, starting
\* from a well-formed (or no) Index, the second run exports nothing new and
\* persists an Index equal to the first run's in everything but exported_at.
C1_Idempotent ==
  TwiceUnchanged =>
    /\ hist[2].new_count = 0
    /\ SameIndexContent(hist[2].indexAfter, hist[1].indexAfter)

\* The first of the two runs exported a meeting into an Index that already
\* had an entry, and the second run wrote a later exported_at.
C1_Witness ==
  /\ TwiceUnchanged
  /\ hist[1].new_count > 0
  /\ Len(hist[1].indexLoaded.meetings) > 0
  /\ hist[2].indexAfter.exported_at # hist[1].indexAfter.exported_at

C3_LoadedIdsUntouched ==
  \A h \in Finished :
    (WellFormed(h.indexLoaded) /\ Completed(h)) =>
      \A k \in 1..Len(h.indexLoaded.meetings) :
        /\ h.indexLoaded.meetings[k].id \notin h.built
        /\ \A f \in h.wrote : MeetingsPrefix \o f # h.indexLoaded.meetings[k].file

\* C4 (as claimed): between runs the ids of the Index are exactly the ids
\* whose meeting file was written successfully.
C4_IndexIsWhatWasWritten ==
  Idle => IndexIds(indexFile) = everWritten

\* The decoded payload lacks `state`, `documents` or `transcripts`, or one of
\* them is not a mapping.
SchemaIncompatible(c) ==
  /\ c.file = "json"
  /\ c.blob \in {"str", "dict"}
  /\ \/ c.state # "dict"
     \/ c.documents.kind # "dict"
     \/ c.transcripts.kind # "dict"

\* C5 (as claimed): a run on a cache whose payload lacks state, documents or
\* transcripts, or holds a non-mapping there, fails and writes no Index.
C5_SchemaFailureIsFatal ==
  \A h \in Finished :
    SchemaIncompatible(h.cacheRead) =>
      /\ h.status \in {"fatal", "exception"}
      /\ ~h.indexWritten
      /\ h.indexAfter = h.indexLoaded

\* C9 (as claimed): in a run that gets through its loop, every document
\* without a usable transcript is counted under "no transcript", no meeting
\* is built for it and no Index entry is added for it.
HasNoTranscript(h, d) ==
  \/ h.transcripts[d].kind = "absent"
  \/ h.transcripts[d].kind = "nonlist"
  \/ h.transcripts[d].kind = "list" /\ h.transcripts[d].segs = <<>>

NotProjected(h, d) ==
  /\ d \notin h.built
  /\ d \in IndexIds(h.indexAfter) => d \in IndexIds(h.indexLoaded)
  /\ Len(h.indexAfter.meetings) = Len(LoadedMeetings(h.indexLoaded)) + h.new_count

C9_NoTranscriptCounted ==
  \A h \in Finished :
    Completed(h) =>
      \A d \in DocIds(h.documents) :
        HasNoTranscript(h, d) => (d \in h.skippedIds /\ NotProjected(h, d))

\* C9 (amended): in a run that gets through its loop, every document without
\* a usable transcript that is not skipped as already exported is counted
\* under "no transcript", one that is skipped as already exported is counted
\* under "already exported" only, and in both cases no meeting is built and
\* no Index entry is added for it.
C9_NoTranscriptCountedUnlessExported ==
  \A h \in Finished :
    Completed(h) =>
      /\ h.skipped_no_transcript = Cardinality(h.skippedIds)
      /\ \A d \in DocIds(h.documents) :
           HasNoTranscript(h, d) =>
             /\ d \in h.skippedIds <=> d \notin h.existing_ids
             /\ d \in h.alreadyIds <=> d \in h.existing_ids
             /\ NotProjected(h, d)

\* A completed run skipped a document whose transcript is an empty list and
\* exported another one.
C9_Witness ==
  \E h \in Finished :
    /\ Completed(h)
    /\ h.new_count > 0
    /\ \E d \in h.skippedIds : h.transcripts[d] = ListTranscript(<<>>)

(***************************************************************************)
(* Properties of run_sync                                                  *)
(***************************************************************************)
Synced == { h \in Finished : h.sync.called }

\* sync_enabled is false or unset in the configuration run_sync loads.
EnabledUnsetOrFalse ==
  /\ config.kind # "nondict"
  /\ \/ config.kind \in {"absent", "malformed"}
     \/ config.sync_enabled \in {"absent", "false"}

EnabledWith(method) ==
  config.kind = "dict" /\ config.sync_enabled = "true" /\ config.sync_method = method

\* C6: with sync_enabled false or unset run_sync issues no command and
\* leaves the working tree alone, whatever the count and the other fields.
C6_DisabledRunsNothing ==
  \A h \in Synced :
    EnabledUnsetOrFalse =>
      /\ h.sync.log = <<>>
      /\ h.sync.result = "none"
      /\ repoRoot = h.sync.rootBefore

\* run_sync returned under sync_enabled false with everything else set up
\* for a github sync of new records.
C6_Witness ==
  \E h \in Synced :
    /\ config.kind = "dict" /\ config.sync_enabled = "false"
    /\ config.sync_method = "github" /\ config.github_repo = RepoOrgGit
    /\ git = MkGit(TRUE, TRUE, UrlMatching)
    /\ h.new_count > 0
    /\ h.sync.log = <<>>

\* C7 (as claimed): with method github and no new records, the sync is
\* skipped only when the tree has no uncommitted changes; with uncommitted
\* changes sync_github runs.
C7_DirtyTreeSyncsOnNoNew ==
  \A h \in Synced :
    (EnabledWith("github") /\ h.new_count = 0) =>
      (h.sync.result = "none" <=> git_has_changes(git, h.sync.dirtyBefore) = "false")

\* sync_github was called: run_sync got as far as line 256.
GithubCalled(h) == EnabledWith("github") /\ h.sync.result # "none"

\* The URL of origin cannot be read, or does not contain the configured
\* repo without its trailing .git.
RemoteMismatch ==
  \/ ~git.installed
  \/ git.remote = Absent
  \/ ~Contains(git.remote,
               IF EndsWith(StrOrEmpty(config.github_repo), <<".","g","i","t">>)
               THEN Prefix(StrOrEmpty(config.github_repo),
                           Len(StrOrEmpty(config.github_repo)) - 4)
               ELSE StrOrEmpty(config.github_repo))

\* C8: when origin cannot be read or does not match the configured repo,
\* sync_github returns False having copied, staged, committed and pushed
\* nothing.
C8_MismatchAbortsEarly ==
  \A h \in Synced :
    (GithubCalled(h) /\ RemoteMismatch) =>
      /\ h.sync.result = "false"
      /\ \A k \in 1..Len(h.sync.log) :
           h.sync.log[k] \notin {CmdCopy, CmdAdd, CmdStatus, CmdCommit, CmdPush}
      /\ repoRoot = h.sync.rootBefore
      /\ gitDirty = h.sync.dirtyBefore

\* sync_github read an origin that names another repository, with a meeting
\* file waiting to be copied.
C8_Witness ==
  \E h \in Synced :
    /\ GithubCalled(h)
    /\ config.github_repo = RepoOrgGit
    /\ git = MkGit(TRUE, TRUE, UrlOther)
    /\ h.sync.log = <<CmdRemote>>
    /\ h.sync.rootBefore = NoFiles /\ files # NoFiles

\* C10 (as claimed): run_sync returns without raising under every
\* configuration file and every outcome of the commands.
C10_SyncNeverRaises ==
  \A h \in Synced : ~h.sync.raised /\ h.status = "ok"

(***************************************************************************)
(* Properties of interrupted runs                                          *)
(***************************************************************************)
\* A run that ended inside the export loop after it wrote to meetings/, and
\* the next run, which completed on the same cache.
Resumed ==
  /\ Len(hist) = 2
  /\ hist[1].status \in {"exception", "killed"}
  /\ ~hist[1].indexWritten
  /\ hist[1].wrote # {}
  /\ Completed(hist[2])
  /\ hist[2].cacheRead = hist[1].cacheRead

\* C11: when a run is interrupted after writing meeting files and before the
\* Index is persisted, the next complete run on the same cache handles the
\* documents of the interrupted run as new and leaves the Index (but for
\* exported_at) and the files, names and contents, that one uninterrupted
\* run from the same archive leaves.
C11_RerunCompletesInterrupted ==
  Resumed =>
    LET u == UninterruptedRun(hist[1].cacheRead, hist[1].indexLoaded,
                              hist[1].filesAtStart)
    IN  /\ hist[1].built \subseteq hist[2].built
        /\ SameIndexContent(hist[2].indexAfter, u.index)
        /\ hist[2].filesAfter = u.files

\* The interrupted run had written one meeting file whole, and the rerun
\* exported two meetings.
C11_Witness ==
  /\ Resumed
  /\ \E f \in hist[1].wrote : hist[1].filesAfter[f].kind = "json"
  /\ hist[2].new_count = 2

(***************************************************************************)
(* Properties of the Index a run persists                                  *)
(***************************************************************************)
\* index.json is not JSON, or one of its entries has no id.
MalformedPrior(h) ==
  \/ h.indexLoaded.kind = "notjson"
  \/ h.indexLoaded.kind = "json" /\ ~WellFormed(h.indexLoaded)

\* C12: a run that finds a malformed Index (not JSON, or an entry without
\* id) and gets through takes the prior Index as empty: the Index it
\* persists holds the entries the run added and no other, and no id twice.
C12_MalformedIndexStartsFresh ==
  \A h \in Finished :
    MalformedPrior(h) /\ Completed(h) =>
      LET ms == h.indexAfter.meetings
      IN  /\ Len(ms) = h.new_count
          /\ { ms[i].id : i \in 1..Len(ms) } = h.built
          /\ \A i, j \in 1..Len(ms) : i # j => ms[i].id # ms[j].id

\* The date of an entry is one datetime.fromisoformat accepts (line 346).
ValidDate(m) == date_str(DateKey(m)) # UnknownDate

\* ms is in descending order of date under string comparison.
SortedByDateDesc(ms) ==
  \A i, j \in 1..Len(ms) : i < j => ~StrLess(DateKey(ms[i]), DateKey(ms[j]))

C14_CommandOnNoNewFollowsFlag ==
  \A h \in Synced :
    (EnabledWith("command") /\ StrOrEmpty(config.sync_command) # <<>>
       /\ h.new_count = 0) =>
      (CmdShell \in Range(h.sync.log) <=> Truthy(config.sync_on_no_new))

(***************************************************************************)
(* Properties of get_full_transcript_text                                  *)
(***************************************************************************)
Speaker(seg) == IF seg.source = Absent THEN Unknown ELSE seg.source

RawText(seg) == IF seg.text = Absent THEN <<>> ELSE seg.text

StrippedText(seg) == strip(RawText(seg))

\* The positions at which a maximal run of one speaker starts.
RunStarts(segs) ==
  { i \in 1..Len(segs) : i = 1 \/ Speaker(segs[i]) # Speaker(segs[i - 1]) }

\* The last position of the run that starts at i.
RunEnd(segs, i) ==
  CHOOSE e \in i..Len(segs) :
    /\ \A k \in (i + 1)..e : k \notin RunStarts(segs)
    /\ e = Len(segs) \/ e + 1 \in RunStarts(segs)

\* The non-empty texts, as T reads them, of the run that starts at i.
RunTexts(segs, i, T(_)) ==
  SelectSeq([k \in 1..(RunEnd(segs, i) - i + 1) |-> T(segs[i + k - 1])],
            LAMBDA x : x # <<>>)

RECURSIVE Concat(_)
Concat(ss) == IF ss = <<>> THEN <<>> ELSE Head(ss) \o Concat(Tail(ss))

\* One paragraph for every run with a non-empty text, in order, joined by a
\* blank line.
ParagraphsText(segs, T(_)) ==
  LET par(i) == <<"[">> \o Speaker(segs[i]) \o <<"]", ":", " ">>
                  \o Join(RunTexts(segs, i, T), <<" ">>)
      ps == [i \in 1..Len(segs) |->
               IF i \in RunStarts(segs) /\ RunTexts(segs, i, T) # <<>>
               THEN <<par(i)>> ELSE <<>>]
  IN  Join(Concat(ps), <<"\n", "\n">>)

\* The segments of the transcript the meeting file f was built from.
SegmentsOf(f) == cache.transcripts.map[files[f].id].segs

ExportedFiles == { f \in DOMAIN files : files[f].kind = "json" }

\* C15 as stated: the transcript text of every exported meeting is, in
\* order, one paragraph per maximal run of consecutive segments of one
\* speaker that has a non-empty text, "[speaker]: " followed by the
\* non-empty texts of the run joined by single spaces, the paragraphs
\* joined by a blank line.
C15_ParagraphPerSpeakerRun ==
  \A f \in ExportedFiles :
    files[f].transcript_text = ParagraphsText(SegmentsOf(f), RawText)

\* C15 amended: the same with every text taken without its leading and
\* trailing whitespace, a text of whitespace only counting as empty.
C15_ParagraphPerSpeakerRunStripped ==
  \A f \in ExportedFiles :
    files[f].transcript_text = ParagraphsText(SegmentsOf(f), StrippedText)

\* An exported transcript of three segments of one speaker: a text, an
\* empty text, and a text padded with spaces.
C15_Witness ==
  \E f \in ExportedFiles :
    LET segs == SegmentsOf(f)
    IN  /\ Len(segs) = 3
        /\ RunStarts(segs) = {1}
        /\ StrippedText(segs[1]) # <<>>
        /\ RawText(segs[2]) = <<>>
        /\ StrippedText(segs[3]) # <<>>
        /\ StrippedText(segs[3]) # RawText(segs[3])
        /\ files[f].transcript_text # <<>>

(***************************************************************************)
(* Properties of overlapping runs                                          *)
(***************************************************************************)
\* Both runs are over, both wrote index.json, and both had loaded it before
\* either wrote it: every write changes exported_at, so they loaded the
\* same Index.
Overlapped ==
  /\ Idle
  /\ Len(hist) = 2
  /\ Completed(hist[1]) /\ Completed(hist[2])
  /\ hist[1].indexLoaded = hist[2].indexLoaded

\* The run of hist that wrote index.json last.
LastWriter ==
  IF hist[1].indexComputed.exported_at > hist[2].indexComputed.exported_at
  THEN 1 ELSE 2

\* The entries of the Index run h computed that carry id.
EntriesOf(h, id) ==
  { h.indexComputed.meetings[i] : i \in { k \in 1..Len(h.indexComputed.meetings) :
                                           h.indexComputed.meetings[k].id = id } }

\* C16: when two runs overlap so that both load the Index before either
\* persists it, the Index left after both is the one the last writer
\* computed, made of what that run loaded and what it added; an entry only
\* the earlier writer added is not in it, although the file it names is in
\* meetings/.
C16_LastWriterWins ==
  Overlapped =>
    LET w == hist[LastWriter]
        e == hist[3 - LastWriter]
    IN  /\ indexFile = w.indexComputed
        /\ IndexIds(indexFile) = IndexIds(w.indexLoaded) \cup w.built
        /\ \A id \in IndexIds(e.indexComputed) \ IndexIds(w.indexComputed) :
             /\ id \notin IndexIds(indexFile)
             /\ \A m \in EntriesOf(e, id) :
                  \E f \in DOMAIN files : m.file = MeetingsPrefix \o f

\* The earlier writer added a meeting the last writer did not have, and the
\* last writer added one too.
C16_Witness ==
  /\ Overlapped
  /\ IndexIds(hist[3 - LastWriter].indexComputed)
        \ IndexIds(hist[LastWriter].indexComputed) # {}
  /\ hist[LastWriter].new_count > 0

(***************************************************************************)
(* Properties of sync_github                                               *)
(***************************************************************************)
\* sync_github ran and its remote check passed.
PassedRemote(h) ==
  /\ GithubCalled(h)
  /\ StrOrEmpty(config.github_repo) # <<>>
  /\ git.git_dir /\ git.installed
  /\ RemoteAccepted(StrOrEmpty(config.github_repo), git)

StepOrder == <<CmdCopy, CmdAdd, CmdStatus, CmdCommit, CmdPush>>

\* The commands of sync_github after the remote check.
Steps(h) == Tail(h.sync.log)

\* git add -A had something to stage.
Staged(h) ==
  h.sync.dirtyBefore \/ CopyMeetings(h.filesAfter, h.sync.rootBefore) # h.sync.rootBefore

\* C17: after the remote check passes, sync_github copies, stages, checks
\* the status, commits and pushes in this order; it commits only when
\* something was staged, pushes only after the commit succeeded, stops at
\* the first step that fails and then returns failure, and with nothing
\* staged it stops after the status check and returns success.
C17_GithubStepsInOrder ==
  \A h \in Synced :
    PassedRemote(h) =>
      /\ h.sync.log[1] = CmdRemote
      /\ Steps(h) # <<>>
      /\ Steps(h) = SubSeq(StepOrder, 1, Len(Steps(h)))
      /\ (CmdCommit \in Range(Steps(h)) => Staged(h))
      /\ (CmdPush \in Range(Steps(h)) => h.sync.failed # CmdCommit)
      /\ (h.sync.failed # "" =>
            /\ h.sync.failed = h.sync.log[Len(h.sync.log)]
            /\ h.sync.result = "false")
      /\ (~Staged(h) /\ h.sync.failed = "" =>
            /\ Steps(h) = <<CmdCopy, CmdAdd, CmdStatus>>
            /\ h.sync.result = "true")

(***************************************************************************)
(* Properties of filenames and counts                                      *)
(***************************************************************************)
\* C18: two distinct ids that are exported, in one run or in two, get
\* distinct filenames, so no write replaces the meeting file of another id:
\* distinct ids of the Index name distinct files, and a file a run wrote
\* over held the same id before.
C18_DistinctIdsDistinctFiles ==
  /\ indexFile.kind = "json" =>
       \A i, j \in 1..Len(indexFile.meetings) :
         LET a == indexFile.meetings[i]
             b == indexFile.meetings[j]
         IN  (a.id # Absent /\ b.id # Absent /\ a.id # b.id) => a.file # b.file
  /\ \A h \in Finished :
       Completed(h) =>
         \A f \in h.wrote \cap DOMAIN h.filesAtStart :
           (h.filesAtStart[f].kind = "json" /\ h.filesAfter[f].kind = "json")
             => h.filesAfter[f].id = h.filesAtStart[f].id

\* The entries of the Index file ix.
PriorEntries(ix) == IF ix.kind = "json" THEN Len(ix.meetings) ELSE 0

\* C19: at the end of a completed run the three counts partition the
\* documents of the cache (each document is counted once, as new, already
\* exported or without transcript), and the exported_count of the Index it
\* wrote is the length of its meetings list, which is the number of prior
\* Index entries plus the new count.
C19_CountsPartition ==
  \A h \in Finished :
    Completed(h) =>
      /\ h.new_count + h.already_exported + h.skipped_no_transcript = Len(h.documents)
      /\ h.built \cup h.alreadyIds \cup h.skippedIds = DocIds(h.documents)
      /\ h.built \cap h.alreadyIds = {}
      /\ h.built \cap h.skippedIds = {}
      /\ h.alreadyIds \cap h.skippedIds = {}
      /\ Cardinality(h.built) = h.new_count
      /\ Cardinality(h.alreadyIds) = h.already_exported
      /\ Cardinality(h.skippedIds) = h.skipped_no_transcript
      /\ h.indexComputed.exported_count = Len(h.indexComputed.meetings)
      /\ Len(h.indexComputed.meetings) = PriorEntries(h.indexLoaded) + h.new_count

\* A completed run on two documents and an Index of one entry: one document
\* was exported before, the other is new.
C19_Witness ==
  \E h \in Finished :
    /\ Completed(h)
    /\ Len(h.documents) = 2
    /\ PriorEntries(h.indexLoaded) = 1
    /\ h.already_exported = 1
    /\ h.new_count = 1

(***************************************************************************)
(* Properties of fatal cache errors                                        *)
(***************************************************************************)
\* The cache file is absent or not JSON, or its payload is a string that is
\* not JSON or a value that is neither string nor mapping.
FatalCache(c) ==
  \/ c.file \in {"absent", "notjson"}
  \/ c.file = "json" /\ c.blob \in {"badstr", "other"}

\* C20: a run on a cache that is absent, not JSON or of an unexpected
\* payload type ends with sys.exit(1), and a run that ends so leaves the
\* archive as it found it: it writes no meeting file, does not touch
\* index.json and does not call run_sync.
C20_FatalLeavesArchive ==
  \A h \in Finished :
    /\ FatalCache(h.cacheRead) => h.status = "fatal"
    /\ h.status = "fatal" =>
         /\ h.wrote = {}
         /\ h.filesAfter = h.filesAtStart
         /\ ~h.indexWritten
         /\ h.indexAfter = h.indexLoaded
         /\ ~h.sync.called

\* A run exported a meeting with sync enabled; then the cache broke and the
\* next run ended with the fatal error.
C20_Witness ==
  /\ Len(hist) = 2
  /\ Completed(hist[1]) /\ hist[1].new_count > 0
  /\ EnabledWith("command")
  /\ FatalCache(hist[2].cacheRead)
  /\ hist[2].status = "fatal"
  /\ hist[2].indexLoaded.exported_count > 0

====
